---- MODULE Spec2Model ----
(***************************************************************************)
(* A model of the VCS revision items of Helio Workstation                  *)
(* (Source/Core/VCS/RevisionItem.cpp): a RevisionItem snapshots a live     *)
(* TrackedItem, keeps the payloads of its deltas in a pending cache        *)
(* (deltasData) until flushData() writes them to the shared Pack, and is   *)
(* saved to and loaded from a ValueTree.                                   *)
(*                                                                         *)
(* Arrays are 1-based here: index i of the C++ code is index i + 1.        *)
(***************************************************************************)
EXTENDS Integers, Sequences, FiniteSets, TLC

VARIABLES
    tracked,    \* the live TrackedItems: [deltas, data] per tracked item id
    rev,        \* the RevisionItems: the fields of each object
    pack,       \* the shared Pack: <<item uuid, delta uuid>> -> payload
    tree,       \* the ValueTree serialize() has just returned, or NoTree
    crashed,    \* the process has dereferenced a null pointer and is gone
    hist,       \* history: per RevisionItem, what was captured and what ran
    last,       \* history: the operation that ran last and its arguments
    worker,     \* the background thread inside flushData(): where it is
    reader,     \* the thread inside serializeDeltaData(i): where it is
    vcsItems,   \* ProjectTreeItem::vcsItems, the project's tracked-items list
    vcsInfoLock,\* ProjectTreeItem::vcsInfoLock: its writer and its readers
    mainThread, \* the message thread inside a ProjectTreeItem method
    vcsThread,  \* the VCS thread inside getNumTrackedItems/getTrackedItem
    list,       \* TreeNavigationHistory::list, weak references to TreeItems
    currentPageIndex, \* TreeNavigationHistory::currentPageIndex (0-based)
    historyLock,\* TreeNavigationHistory::historyLock, a weak reference
    deleted,    \* the TreeItems that have been deleted
    locks,      \* the TreeNavigationHistoryLock objects that are alive
    navLast     \* history: the last call on the navigation history

\* The threads of the flush/read interleaving, and the project's list.
raceVars == <<worker, reader>>
projectVars == <<vcsItems, vcsInfoLock, mainThread, vcsThread>>

navVars == <<list, currentPageIndex, historyLock, deleted, locks, navLast>>

vars == <<tracked, rev, pack, tree, crashed, hist, last, raceVars, projectVars, navVars>>

----------------------------------------------------------------------------
\* Bounds of the model.

\* The largest number of deltas a TrackedItem or a serialized tree has.
MaxDeltas == 2

\* The number of TreeItems the user navigates between, and the longest
\* navigation history the model lets addItemIfNeeded build.
MaxItems == 3
MaxHistory == 3

----------------------------------------------------------------------------
\* Values.

\* RevisionItem::Type, in the order the persisted form gives it.
Added == 0
Removed == 1
Changed == 2
Undefined == 3

Types == {Added, Removed, Changed, Undefined}

\* The revision items and the tracked items of the model.
Items == {1, 2}
TrackedIds == {1, 2}

\* Delta uuids; one more than any tracked item uses, for an unknown id.
DeltaIds == 1 .. MaxDeltas
UnknownDeltaId == MaxDeltas + 1

\* Payloads (ValueTrees). The payload of a delta says which delta it
\* describes and which content it has: one of the two contents the live
\* item alternates between as the user edits it, or the content a remote
\* history holds. Then the placeholder of importDataForDelta and the
\* invalid tree the Pack returns on a miss.
Contents == {"a", "b"}
Payload(deltaUuid, content) == <<"payload", deltaUuid, content>>
RemotePayload(deltaUuid) == Payload(deltaUuid, "remote")
Dummy == <<"dummy", 0, "">>
EmptyPayload == <<"invalid", 0, "">>

\* No TrackedItem (targetToCopy == nullptr), no DiffLogic (logic == nullptr).
NullTarget == 0
NullLogic == "null"

\* Uuid::toString(): the textual form importDataForDelta compares.
UuidToString(u) == <<"uuid", u>>

\* A Delta: its uuid and its type tag.
Delta(u, t) == [uuid |-> u, type |-> t]

\* The type tag of the deltas the tracked items create, by uuid.
DeltaTypeOf(u) == IF u % 2 = 1 THEN "Changed" ELSE "Added"

\* Delta::createCopy(): the copy keeps the uuid and the type tag.
DeltaCreateCopy(d) == Delta(d.uuid, d.type)

\* TrackedItem::getVCSName() and the DiffLogic type of a live item.
VCSNameOf(t) == IF t = 1 THEN "track1" ELSE "track2"
LogicTypeOf(t) == IF t = 1 THEN "pianoTrack" ELSE "automationTrack"
RegisteredLogicTypes == {"pianoTrack", "automationTrack"}

\* The uuid a TrackedItem base is born with when nothing is copied into it.
FreshUuid(r) == 10 + r

\* The uuids of a list of deltas, in order.
Ids(deltas) == [i \in 1 .. Len(deltas) |-> deltas[i].uuid]

----------------------------------------------------------------------------
\* Pack (spec section 4.2).

\* setDeltaDataFor: upsert, last write wins.
SetDeltaDataFor(pk, itemId, deltaId, payload) ==
    [k \in DOMAIN pk \cup {<<itemId, deltaId>>} |->
        IF k = <<itemId, deltaId>> THEN payload ELSE pk[k]]

\* createDeltaDataFor: the payload, or the invalid tree on a miss.
CreateDeltaDataFor(pk, itemId, deltaId) ==
    IF <<itemId, deltaId>> \in DOMAIN pk THEN pk[<<itemId, deltaId>>] ELSE EmptyPayload

EmptyPack == [k \in {} |-> EmptyPayload]

----------------------------------------------------------------------------
\* RevisionItem.

\* A slot no RevisionItem has been constructed in yet.
NoItem ==
    [alive |-> FALSE, vcsItemType |-> Undefined, description |-> "",
     vcsUuid |-> 0, logic |-> NullLogic, deltas |-> <<>>, deltasData |-> <<>>]

\* A constructor that prepends each copy instead of appending it.
CopyDeltasReversed(t) ==
    [i \in 1 .. Len(t.deltas) |-> DeltaCreateCopy(t.deltas[Len(t.deltas) + 1 - i])]

\* The constructor's loop: a copy of every delta of the target, in order.
CopyDeltas(t) == [i \in 1 .. Len(t.deltas) |-> DeltaCreateCopy(t.deltas[i])]

\* TrackedItem::serializeDeltaData(i) of a live item: its current payload.
LiveDeltaData(t, i) == Payload(t.deltas[i].uuid, t.content)

\* A constructor whose loop stops one payload short.
CopyDeltasDataShort(t) == [i \in 1 .. Len(t.deltas) - 1 |-> LiveDeltaData(t, i)]

\* The constructor's loop: targetToCopy->serializeDeltaData(i) for every i.
CopyDeltasData(t) == [i \in 1 .. Len(t.deltas) |-> LiveDeltaData(t, i)]

\* RevisionItem::RevisionItem(pack, type, targetToCopy).
NewItem(r, type, src) ==
    IF src = NullTarget
    THEN [alive |-> TRUE, vcsItemType |-> type, description |-> "",
          vcsUuid |-> FreshUuid(r), logic |-> NullLogic,
          deltas |-> <<>>, deltasData |-> <<>>]
    ELSE [alive |-> TRUE, vcsItemType |-> type, description |-> VCSNameOf(src),
          vcsUuid |-> src, logic |-> LogicTypeOf(src),
          deltas |-> CopyDeltas(tracked[src]),
          deltasData |-> CopyDeltasData(tracked[src])]

\* RevisionItem::getNumDeltas().
GetNumDeltas(it) == Len(it.deltas)

\* A serializeDeltaData that asks the Pack by index, not by the delta's uuid.
SerializeDeltaDataByIndex(it, pk, i) ==
    IF i <= Len(it.deltasData)
    THEN it.deltasData[i]
    ELSE CreateDeltaDataFor(pk, it.vcsUuid, i)

\* A serializeDeltaData that serves an index beyond a non-empty cache from
\* the cache's last entry.
SerializeDeltaDataFromLastPending(it, pk, i) ==
    IF i <= Len(it.deltasData)
    THEN it.deltasData[i]
    ELSE IF it.deltasData # <<>>
         THEN it.deltasData[Len(it.deltasData)]
         ELSE CreateDeltaDataFor(pk, it.vcsUuid, it.deltas[i].uuid)

\* A serializeDeltaData that prefers what the Pack holds to the cache.
SerializeDeltaDataPackFirst(it, pk, i) ==
    IF <<it.vcsUuid, it.deltas[i].uuid>> \in DOMAIN pk
    THEN CreateDeltaDataFor(pk, it.vcsUuid, it.deltas[i].uuid)
    ELSE IF i <= Len(it.deltasData) THEN it.deltasData[i] ELSE EmptyPayload

\* RevisionItem::serializeDeltaData(deltaIndex), for a valid index.
SerializeDeltaData(it, pk, i) ==
    IF i <= Len(it.deltasData)
    THEN it.deltasData[i]
    ELSE CreateDeltaDataFor(pk, it.vcsUuid, it.deltas[i].uuid)

\* A flushData that keys the write by the index, not by the delta's uuid.
FlushWriteByIndex(pk, it, i) ==
    SetDeltaDataFor(pk, it.vcsUuid, i, it.deltasData[i])

\* A flushData whose write replaces the payload of that delta uuid under
\* every item uuid: delta uuids not namespaced by the item.
FlushWriteAcrossItems(pk, it, i) ==
    [k \in DOMAIN pk \cup {<<it.vcsUuid, it.deltas[i].uuid>>} |->
        IF k[2] = it.deltas[i].uuid THEN it.deltasData[i] ELSE pk[k]]

\* One pass of flushData's loop body (line 51) for the entry at index i.
FlushWrite(pk, it, i) ==
    SetDeltaDataFor(pk, it.vcsUuid, it.deltas[i].uuid, it.deltasData[i])

\* flushData's loop from index i on: the Pack it leaves, and whether it
\* faulted. Where deltas has no index i, OwnedArray::operator[] returns
\* nullptr and this->deltas[i]->getUuid() reads through it: the process
\* faults there, the earlier writes done and the cache not cleared.
RECURSIVE FlushLoop(_, _, _)
FlushLoop(pk, it, i) ==
    IF i > Len(it.deltasData) THEN [pack |-> pk, crashed |-> FALSE]
    ELSE IF i <= Len(it.deltas) THEN FlushLoop(FlushWrite(pk, it, i), it, i + 1)
    ELSE [pack |-> pk, crashed |-> TRUE]

\* A flushData that forgets to clear the cache, and one that clears the
\* wrong array.
FlushKeepsCache(it) == it
FlushClearsDeltas(it) == [it EXCEPT !.deltas = <<>>]

\* flushData's last statement: this->deltasData.clear().
FlushClear(it) == [it EXCEPT !.deltasData = <<>>]

\* importDataForDelta's search: the first index whose delta has the uuid, or 0.
FindDelta(it, deltaUuid) ==
    LET hits == {i \in 1 .. Len(it.deltas) : UuidToString(it.deltas[i].uuid) = deltaUuid}
    IN  IF hits = {} THEN 0 ELSE CHOOSE i \in hits : \A j \in hits : i <= j

\* A while loop that rebuilds the cache from placeholders.
GrowDeltasDataAfresh(data, k) ==
    [i \in 1 .. (IF Len(data) >= k THEN Len(data) ELSE k) |-> Dummy]

\* importDataForDelta's while loop: placeholders until index k exists.
GrowDeltasData(data, k) ==
    [i \in 1 .. (IF Len(data) >= k THEN Len(data) ELSE k) |->
        IF i <= Len(data) THEN data[i] ELSE Dummy]

\* ValueTree::createCopy(): a deep copy has the same content.
CreateCopy(payload) == payload

\* An importDataForDelta that grows the cache before it looks for the delta.
ImportItemGrowsFirst(it, deltaDataToCopy, deltaUuid) ==
    LET k == FindDelta(it, deltaUuid)
        grown == GrowDeltasData(it.deltasData, Len(it.deltas))
    IN  IF k = 0 THEN [it EXCEPT !.deltasData = grown]
        ELSE [it EXCEPT !.deltasData = [grown EXCEPT ![k] = CreateCopy(deltaDataToCopy)]]

\* RevisionItem::importDataForDelta(deltaDataToCopy, deltaUuid).
ImportItem(it, deltaDataToCopy, deltaUuid) ==
    LET k == FindDelta(it, deltaUuid)
    IN  IF k = 0 THEN it
        ELSE [it EXCEPT !.deltasData =
                  [GrowDeltasData(@, k) EXCEPT ![k] = CreateCopy(deltaDataToCopy)]]

\* RevisionItem::reset().
ResetItem(it) ==
    [it EXCEPT !.deltas = <<>>, !.description = "", !.vcsItemType = Undefined]

----------------------------------------------------------------------------
\* The serialized form (spec section 6): a ValueTree is a node with a type,
\* properties and an ordered list of children.

Node(type, props, children) == [type |-> type, props |-> props, children |-> children]

NoProps == [k \in {} |-> 0]

\* An invalid ValueTree, and "no tree has been serialized yet".
InvalidTree == Node("invalid", NoProps, <<>>)
NoTree == Node("none", NoProps, <<>>)

\* ValueTree::getProperty(name, defaultValue).
GetProperty(node, name, default) ==
    IF name \in DOMAIN node.props THEN node.props[name] ELSE default

\* ValueTree::getChildWithName(type): the first such child, or an invalid tree.
GetChildWithName(node, type) ==
    LET hits == {i \in 1 .. Len(node.children) : node.children[i].type = type}
    IN  IF hits = {} THEN InvalidTree
        ELSE node.children[CHOOSE i \in hits : \A j \in hits : i <= j]

\* Delta::serialize() and Delta::deserialize(): the uuid and the type tag.
DeltaSerialize(d) == Node("delta", [deltaId |-> UuidToString(d.uuid), deltaTypeId |-> d.type], <<>>)

StringToUuid(str) == str[2]

DeltaDeserialize(e) ==
    Delta(StringToUuid(GetProperty(e, "deltaId", UuidToString(0))),
          GetProperty(e, "deltaTypeId", ""))

\* serialize()'s loop over this->deltas: one child per delta, in order.
SerializeDeltas(deltas) == [i \in 1 .. Len(deltas) |-> DeltaSerialize(deltas[i])]

\* A serialize() that leaves the type out of the tree.
SerializeItemWithoutType(it) ==
    Node("revisionItem",
         [vcsItemId |-> UuidToString(it.vcsUuid),
          revisionItemName |-> it.description,
          revisionItemDiffLogic |-> it.logic],
         SerializeDeltas(it.deltas))

\* RevisionItem::serialize(), for an item whose logic is bound.
SerializeItem(it) ==
    Node("revisionItem",
         [vcsItemId |-> UuidToString(it.vcsUuid),
          revisionItemType |-> it.vcsItemType,
          revisionItemName |-> it.description,
          revisionItemDiffLogic |-> it.logic],
         SerializeDeltas(it.deltas))

\* serialize() on any item: the tree it returns, and whether it faulted.
\* With no logic bound, getDiffLogic()->getType() is a virtual call through
\* nullptr: the process faults and no tree is returned.
SerializeOutcome(it) ==
    IF it.logic # NullLogic
    THEN [tree |-> SerializeItem(it), crashed |-> FALSE]
    ELSE [tree |-> NoTree, crashed |-> TRUE]

\* deserialize()'s choice of root: the tree itself or its revisionItem child.
RootOf(t) ==
    IF t.type = "revisionItem" THEN t ELSE GetChildWithName(t, "revisionItem")

IsValid(node) == node.type # "invalid"

\* static_cast<Type>(type): Type is an unscoped enumeration stored as an
\* int, and the cast checks nothing: the item keeps the integer as it is,
\* whether or not an enumerator has that value.
StaticCastType(n) == n

\* DiffLogic::createLogicFor(item, type): null for a tag nothing registered.
CreateLogicFor(logicType) ==
    IF logicType \in RegisteredLogicTypes THEN logicType ELSE NullLogic

\* deserialize()'s loop over the root's children: one Delta per child.
DeserializeDeltas(root) ==
    [i \in 1 .. Len(root.children) |-> DeltaDeserialize(root.children[i])]

\* A deserialize that looks for the root before it resets the item.
DeserializeItemChecksFirst(it, t) ==
    LET root == RootOf(t)
    IN  IF ~IsValid(root) THEN it
        ELSE [ResetItem(it) EXCEPT
                 !.vcsUuid = StringToUuid(GetProperty(root, "vcsItemId", UuidToString(it.vcsUuid))),
                 !.description = GetProperty(root, "revisionItemName", ""),
                 !.vcsItemType = StaticCastType(GetProperty(root, "revisionItemType", Undefined)),
                 !.logic = CreateLogicFor(GetProperty(root, "revisionItemDiffLogic", "")),
                 !.deltas = DeserializeDeltas(root)]

\* RevisionItem::deserialize(tree).
DeserializeItem(it, t) ==
    LET cleared == ResetItem(it)
        root == RootOf(t)
    IN  IF ~IsValid(root) THEN cleared
        ELSE [cleared EXCEPT
                 !.vcsUuid = StringToUuid(GetProperty(root, "vcsItemId", UuidToString(it.vcsUuid))),
                 !.description = GetProperty(root, "revisionItemName", ""),
                 !.vcsItemType = StaticCastType(GetProperty(root, "revisionItemType", Undefined)),
                 !.logic = CreateLogicFor(GetProperty(root, "revisionItemDiffLogic", "")),
                 !.deltas = DeserializeDeltas(root)]

----------------------------------------------------------------------------
\* The environment: live tracked items and the trees handed to deserialize.

\* A live TrackedItem with the given delta uuids and content.
TrackedItem(ids, content) ==
    [deltas |-> [i \in 1 .. Len(ids) |-> Delta(ids[i], DeltaTypeOf(ids[i]))],
     content |-> content]

Descending == [i \in 1 .. MaxDeltas |-> MaxDeltas + 1 - i]

\* The delta uuids of a live item of n deltas: MaxDeltas down to MaxDeltas - n + 1.
LiveIds(n) == SubSeq(Descending, 1, n)

\* Every live item of at most MaxDeltas deltas, their uuids distinct.
TrackedStates ==
    {TrackedItem(LiveIds(n), content) : n \in 0 .. MaxDeltas, content \in Contents}

NoTrackedItem == TrackedItem(<<>>, "a")

\* The tree serialize() gives for an item with these fields.
TreeOf(uuid, type, name, logic, ids) ==
    Node("revisionItem",
         [vcsItemId |-> UuidToString(uuid), revisionItemType |-> type,
          revisionItemName |-> name, revisionItemDiffLogic |-> logic],
         [i \in 1 .. Len(ids) |-> DeltaSerialize(Delta(ids[i], DeltaTypeOf(ids[i])))])

\* A tree that neither is nor contains a revisionItem node.
NoRootTree == Node("other", NoProps, <<>>)

\* A saved item inside a parent node, its deltas in descending uuid order.
WrappedTree ==
    Node("wrapper", NoProps, <<TreeOf(1, Removed, "track2", "automationTrack", <<2, 1>>)>>)

\* A tree whose revisionItemType is outside the enumeration.
OutOfRangeTypeTree == TreeOf(1, 99, "track1", "pianoTrack", <<1>>)

\* A tree whose diff logic tag nothing registered.
UnknownLogicTree == TreeOf(1, Changed, "track1", "unknownLogic", <<1>>)

\* A revisionItem node with no properties and no children.
BareTree == Node("revisionItem", NoProps, <<>>)

ExternalTrees ==
    {NoRootTree, WrappedTree, OutOfRangeTypeTree, UnknownLogicTree, BareTree}

\* The trees deserialize() can be given now.
TreeInputs == ExternalTrees \cup (IF tree = NoTree THEN {} ELSE {tree})

\* The deltas a remote history offers a payload for: importDataForDelta is
\* given the payload and the uuid of one of them.
ImportUuids == 1 .. UnknownDeltaId

----------------------------------------------------------------------------
\* History variables.

\* Per RevisionItem: its state in the spec's state machine (section 4.4),
\* whether importDataForDelta, reset or deserialize ran since construction,
\* and the payloads the source held when it was snapshotted.
NoHist == [state |-> "None", touched |-> FALSE, src |-> NullTarget, captured |-> <<>>]

\* The operation that ran last, the item it ran on and what it was given.
LastOp(op, r, payload, deltaUuid, t) ==
    [op |-> op, r |-> r, payload |-> payload, deltaUuid |-> deltaUuid, tree |-> t]

Ran(op, r) == LastOp(op, r, EmptyPayload, UuidToString(0), NoTree)

Touch(r) == [hist EXCEPT ![r].touched = TRUE]

\* A thread that is in no call, and the result of a call that has not
\* returned.
NoResult == <<"none", 0, "">>
WorkerIdle == [pc |-> "idle", i |-> 0]
ReaderIdle == [pc |-> "idle", i |-> 0, result |-> NoResult]

\* No thread is inside flushData() or serializeDeltaData().
NoRace == worker = WorkerIdle /\ reader = ReaderIdle

\* ProjectTreeItem::initialize(): the list holds the project info and the
\* timeline; nobody holds vcsInfoLock.
InitialVcsItems == <<"info", "timeline">>
LockFree == [writer |-> FALSE, readers |-> 0]
ThreadIdle == [pc |-> "idle", arg |-> "", result |-> "none"]

InitProject ==
    /\ vcsItems = InitialVcsItems
    /\ vcsInfoLock = LockFree
    /\ mainThread = ThreadIdle
    /\ vcsThread = ThreadIdle

\* TreeNavigationHistory's constructor: historyLock(nullptr),
\* currentPageIndex(0), an empty list. No TreeItem is deleted, no lock exists.
NullItem == 0
NoLock == 0
NavCall(op, item, recorded) == [op |-> op, item |-> item, recorded |-> recorded]

InitNav ==
    /\ list = <<>>
    /\ currentPageIndex = 0
    /\ historyLock = NoLock
    /\ deleted = {}
    /\ locks = {}
    /\ navLast = NavCall("init", NullItem, FALSE)

----------------------------------------------------------------------------
\* Initial state and operations.

Init ==
    /\ tracked \in {[t \in TrackedIds |-> IF t = 1 THEN s ELSE NoTrackedItem] :
                        s \in TrackedStates}
    /\ rev = [r \in Items |-> NoItem]
    /\ pack = EmptyPack
    /\ tree = NoTree
    /\ crashed = FALSE
    /\ hist = [r \in Items |-> NoHist]
    /\ last = Ran("init", 0)
    /\ NoRace
    /\ InitProject
    /\ InitNav

\* new RevisionItem(pack, type, targetToCopy).
Construct(r, type, src) ==
    /\ ~crashed
    /\ ~rev[r].alive
    /\ rev' = [rev EXCEPT ![r] = NewItem(r, type, src)]
    /\ hist' = [hist EXCEPT ![r] =
                   [state |-> "Uncommitted", touched |-> FALSE, src |-> src,
                    captured |-> IF src = NullTarget THEN <<>>
                                 ELSE [i \in 1 .. Len(tracked[src].deltas) |->
                                          LiveDeltaData(tracked[src], i)]]]
    /\ last' = Ran("construct", r)
    /\ tree' = NoTree
    /\ UNCHANGED <<tracked, pack, crashed>>
    /\ UNCHANGED <<raceVars, projectVars>>
    /\ UNCHANGED navVars

\* r.flushData().
FlushData(r) ==
    /\ ~crashed
    /\ rev[r].alive
    /\ LET o == FlushLoop(pack, rev[r], 1)
       IN  /\ pack' = o.pack
           /\ crashed' = o.crashed
           /\ rev' = IF o.crashed THEN rev ELSE [rev EXCEPT ![r] = FlushClear(@)]
           /\ hist' = IF o.crashed THEN hist ELSE [hist EXCEPT ![r].state = "Flushed"]
    /\ last' = Ran("flushData", r)
    /\ tree' = NoTree
    /\ UNCHANGED tracked
    /\ UNCHANGED <<raceVars, projectVars>>
    /\ UNCHANGED navVars

\* An importDataForDelta that also writes the payload through to the Pack.
ImportDataForDeltaWriteThrough(r, payload, deltaUuid) ==
    /\ ~crashed
    /\ rev[r].alive
    /\ rev' = [rev EXCEPT ![r] = ImportItem(@, payload, deltaUuid)]
    /\ pack' = IF FindDelta(rev[r], deltaUuid) = 0 THEN pack
               ELSE SetDeltaDataFor(pack, rev[r].vcsUuid, StringToUuid(deltaUuid), payload)
    /\ hist' = Touch(r)
    /\ last' = LastOp("importDataForDelta", r, payload, deltaUuid, NoTree)
    /\ tree' = NoTree
    /\ UNCHANGED <<tracked, crashed>>
    /\ UNCHANGED <<raceVars, projectVars>>
    /\ UNCHANGED navVars

\* r.importDataForDelta(payload, deltaUuid).
ImportDataForDelta(r, payload, deltaUuid) ==
    /\ ~crashed
    /\ rev[r].alive
    /\ rev' = [rev EXCEPT ![r] = ImportItem(@, payload, deltaUuid)]
    /\ hist' = Touch(r)
    /\ last' = LastOp("importDataForDelta", r, payload, deltaUuid, NoTree)
    /\ tree' = NoTree
    /\ UNCHANGED <<tracked, pack, crashed>>
    /\ UNCHANGED <<raceVars, projectVars>>
    /\ UNCHANGED navVars

\* tree = r.serialize().
Serialize(r) ==
    /\ ~crashed
    /\ rev[r].alive
    /\ LET o == SerializeOutcome(rev[r])
       IN  /\ tree' = o.tree
           /\ crashed' = o.crashed
    /\ last' = Ran("serialize", r)
    /\ UNCHANGED <<tracked, rev, pack, hist>>
    /\ UNCHANGED <<raceVars, projectVars>>
    /\ UNCHANGED navVars

\* r.deserialize(t).
Deserialize(r, t) ==
    /\ ~crashed
    /\ rev[r].alive
    /\ rev' = [rev EXCEPT ![r] = DeserializeItem(@, t)]
    /\ hist' = [hist EXCEPT ![r].touched = TRUE,
                            ![r].state = IF IsValid(RootOf(t)) THEN "Deserialized" ELSE @]
    /\ last' = LastOp("deserialize", r, EmptyPayload, UuidToString(0), t)
    /\ tree' = NoTree
    /\ UNCHANGED <<tracked, pack, crashed>>
    /\ UNCHANGED <<raceVars, projectVars>>
    /\ UNCHANGED navVars

\* r.reset().
Reset(r) ==
    /\ ~crashed
    /\ rev[r].alive
    /\ rev' = [rev EXCEPT ![r] = ResetItem(@)]
    /\ hist' = Touch(r)
    /\ last' = Ran("reset", r)
    /\ tree' = NoTree
    /\ UNCHANGED <<tracked, pack, crashed>>
    /\ UNCHANGED <<raceVars, projectVars>>
    /\ UNCHANGED navVars

\* The user edits live item t: the payloads of its deltas change.
EditTracked(t, content) ==
    /\ ~crashed
    /\ tracked[t].content # content
    /\ tracked' = [tracked EXCEPT ![t].content = content]
    /\ last' = Ran("edit", 0)
    /\ tree' = NoTree
    /\ UNCHANGED <<rev, pack, crashed, hist>>
    /\ UNCHANGED <<raceVars, projectVars>>
    /\ UNCHANGED navVars

\* One RevisionItem snapshotting one live item.
Next ==
    \/ \E type \in Types, src \in {NullTarget, 1} : Construct(1, type, src)
    \/ FlushData(1)
    \/ \E u \in ImportUuids : ImportDataForDelta(1, RemotePayload(u), UuidToString(u))
    \/ Serialize(1)
    \/ \E t \in TreeInputs : Deserialize(1, t)
    \/ Reset(1)
    \/ \E content \in Contents : EditTracked(1, content)

Spec == Init /\ [][Next]_vars

----------------------------------------------------------------------------
\* Two RevisionItems, each the snapshot of its own live item, on one Pack.
\* The two live items use the same delta uuids and differ in their content.

SharedTrees == {NoRootTree, WrappedTree, UnknownLogicTree}

\* The uuids a remote history is asked about here: the one of the last delta
\* of both live items, and one no delta has.
SharedImportUuids == {1, UnknownDeltaId}

InitShared ==
    /\ tracked = [t \in TrackedIds |->
                     TrackedItem(LiveIds(MaxDeltas), IF t = 1 THEN "a" ELSE "b")]
    /\ rev = [r \in Items |-> NoItem]
    /\ pack = EmptyPack
    /\ tree = NoTree
    /\ crashed = FALSE
    /\ hist = [r \in Items |-> NoHist]
    /\ last = Ran("init", 0)
    /\ NoRace
    /\ InitProject
    /\ InitNav

NextShared ==
    \/ \E r \in Items : Construct(r, Changed, r)
    \/ \E r \in Items : FlushData(r)
    \/ \E r \in Items, u \in SharedImportUuids :
           ImportDataForDelta(r, RemotePayload(u), UuidToString(u))
    \/ \E r \in Items : Serialize(r)
    \/ \E r \in Items, t \in SharedTrees : Deserialize(r, t)
    \/ \E r \in Items : Reset(r)

SpecShared == InitShared /\ [][NextShared]_vars

----------------------------------------------------------------------------
\* Successive snapshots of one live item: two RevisionItems constructed from
\* live item 1, at different times, on one Pack. Only the constructor,
\* flushData and importDataForDelta run on them.

NextSnapshots ==
    \/ \E r \in Items : Construct(r, Changed, 1)
    \/ \E r \in Items : FlushData(r)
    \/ \E r \in Items, u \in SharedImportUuids :
           ImportDataForDelta(r, RemotePayload(u), UuidToString(u))
    \/ \E content \in Contents : EditTracked(1, content)

SpecSnapshots == Init /\ [][NextSnapshots]_vars

----------------------------------------------------------------------------
\* flushData() on a background worker while another thread calls
\* serializeDeltaData(i) on the same item. RevisionItem takes no lock, so
\* the statements of the two calls interleave freely.

\* The item has just been constructed from live item 1, which has a delta.
InitRace ==
    /\ tracked \in {[t \in TrackedIds |-> IF t = 1 THEN s ELSE NoTrackedItem] :
                        s \in {x \in TrackedStates : x.deltas # <<>>}}
    /\ \E type \in Types :
           rev = [r \in Items |-> IF r = 1 THEN NewItem(1, type, 1) ELSE NoItem]
    /\ pack = EmptyPack
    /\ tree = NoTree
    /\ crashed = FALSE
    /\ hist = [r \in Items |->
                  IF r = 1
                  THEN [state |-> "Uncommitted", touched |-> FALSE, src |-> 1,
                        captured |-> CopyDeltasData(tracked[1])]
                  ELSE NoHist]
    /\ last = Ran("construct", 1)
    /\ NoRace
    /\ InitProject
    /\ InitNav

\* The worker enters flushData(): int i = 0.
FlushEnter(r) ==
    /\ ~crashed
    /\ worker.pc = "idle"
    /\ worker' = [pc |-> "loop", i |-> 1]
    /\ UNCHANGED <<tracked, rev, pack, tree, crashed, hist, last, reader, projectVars>>
    /\ UNCHANGED navVars

\* A loop that stops one entry early: i < deltasData.size() - 1.
FlushLoopStepStopsEarly(r) ==
    /\ ~crashed
    /\ worker.pc = "loop"
    /\ IF worker.i > Len(rev[r].deltasData) - 1
       THEN /\ worker' = [worker EXCEPT !.pc = "clear"]
            /\ UNCHANGED <<pack, crashed>>
       ELSE /\ pack' = FlushWrite(pack, rev[r], worker.i)
            /\ worker' = [worker EXCEPT !.i = @ + 1]
            /\ UNCHANGED crashed
    /\ UNCHANGED <<tracked, rev, tree, hist, last, reader, projectVars>>
    /\ UNCHANGED navVars

\* One evaluation of the loop condition (line 49) and, if it holds, of the
\* body (line 51).
FlushLoopStep(r) ==
    /\ ~crashed
    /\ worker.pc = "loop"
    /\ IF worker.i > Len(rev[r].deltasData)
       THEN /\ worker' = [worker EXCEPT !.pc = "clear"]
            /\ UNCHANGED <<pack, crashed>>
       ELSE IF worker.i <= Len(rev[r].deltas)
       THEN /\ pack' = FlushWrite(pack, rev[r], worker.i)
            /\ worker' = [worker EXCEPT !.i = @ + 1]
            /\ UNCHANGED crashed
       ELSE /\ crashed' = TRUE
            /\ UNCHANGED <<pack, worker>>
    /\ UNCHANGED <<tracked, rev, tree, hist, last, reader, projectVars>>
    /\ UNCHANGED navVars

\* this->deltasData.clear() (line 54), and flushData() returns.
FlushClearStep(r) ==
    /\ ~crashed
    /\ worker.pc = "clear"
    /\ rev' = [rev EXCEPT ![r] = FlushClear(@)]
    /\ hist' = [hist EXCEPT ![r].state = "Flushed"]
    /\ worker' = WorkerIdle
    /\ UNCHANGED <<tracked, pack, tree, crashed, last, reader, projectVars>>
    /\ UNCHANGED navVars

\* The reader enters serializeDeltaData(i) and evaluates
\* deltaIndex < this->deltasData.size() (line 122).
ReadEnter(r, i) ==
    /\ ~crashed
    /\ reader.pc = "idle"
    /\ i \in 1 .. GetNumDeltas(rev[r])
    /\ reader' = [pc |-> IF i <= Len(rev[r].deltasData) THEN "cached" ELSE "pack",
                  i |-> i, result |-> NoResult]
    /\ UNCHANGED <<tracked, rev, pack, tree, crashed, hist, last, worker, projectVars>>
    /\ UNCHANGED navVars

\* return ValueTree(this->deltasData[deltaIndex]) (line 126). If the worker
\* has cleared the array since the check, Array::operator[] finds the index
\* out of range and returns a default ValueTree, or the unsynchronized read
\* hits storage that clear() is releasing and the process faults.
ReadCached(r) ==
    /\ ~crashed
    /\ reader.pc = "cached"
    /\ IF reader.i <= Len(rev[r].deltasData)
       THEN /\ reader' = [reader EXCEPT !.pc = "done", !.result = rev[r].deltasData[reader.i]]
            /\ UNCHANGED crashed
       ELSE \/ /\ reader' = [reader EXCEPT !.pc = "done", !.result = EmptyPayload]
               /\ UNCHANGED crashed
            \/ /\ crashed' = TRUE
               /\ UNCHANGED reader
    /\ UNCHANGED <<tracked, rev, pack, tree, hist, last, worker, projectVars>>
    /\ UNCHANGED navVars

\* return this->pack->createDeltaDataFor(...) (line 129).
ReadPack(r) ==
    /\ ~crashed
    /\ reader.pc = "pack"
    /\ reader' = [reader EXCEPT !.pc = "done",
                     !.result = CreateDeltaDataFor(pack, rev[r].vcsUuid, rev[r].deltas[reader.i].uuid)]
    /\ UNCHANGED <<tracked, rev, pack, tree, crashed, hist, last, worker, projectVars>>
    /\ UNCHANGED navVars

\* The caller has taken the result and is free to call again.
ReadReturn ==
    /\ ~crashed
    /\ reader.pc = "done"
    /\ reader' = ReaderIdle
    /\ UNCHANGED <<tracked, rev, pack, tree, crashed, hist, last, worker, projectVars>>
    /\ UNCHANGED navVars

NextRace ==
    \/ FlushEnter(1)
    \/ FlushLoopStep(1)
    \/ FlushClearStep(1)
    \/ \E i \in 1 .. MaxDeltas : ReadEnter(1, i)
    \/ ReadCached(1)
    \/ ReadPack(1)
    \/ ReadReturn

SpecRace == InitRace /\ [][NextRace]_vars

----------------------------------------------------------------------------
\* ProjectTreeItem's tracked-items list (Source/Core/Tree/ProjectTreeItem.cpp):
\* the message thread adds and removes tracks and resets the project while
\* the VCS thread reads the list.

\* The tracks the user adds to and removes from the project.
ProjectTracks == {"track1", "track2"}

\* Array::addIfNotAlreadyThere and Array::removeAllInstancesOf.
AddIfNotAlreadyThere(items, x) ==
    IF \E i \in 1 .. Len(items) : items[i] = x THEN items ELSE Append(items, x)

RemoveAllInstancesOf(items, x) == SelectSeq(items, LAMBDA y : y # x)

\* ReadWriteLock: a writer enters when nobody is inside, a reader when no
\* writer is.
CanEnterWrite == ~vcsInfoLock.writer /\ vcsInfoLock.readers = 0
CanEnterRead == ~vcsInfoLock.writer

\* broadcastAddTrack(track): const ScopedWriteLock lock(vcsInfoLock).
AddTrackLock(track) ==
    /\ mainThread.pc = "idle"
    /\ CanEnterWrite
    /\ vcsInfoLock' = [vcsInfoLock EXCEPT !.writer = TRUE]
    /\ mainThread' = [mainThread EXCEPT !.pc = "addTrack", !.arg = track]
    /\ UNCHANGED <<tracked, rev, pack, tree, crashed, hist, last, raceVars, vcsItems, vcsThread>>
    /\ UNCHANGED navVars

\* vcsItems.addIfNotAlreadyThere(tracked), and the lock goes out of scope.
AddTrackBody ==
    /\ mainThread.pc = "addTrack"
    /\ vcsItems' = AddIfNotAlreadyThere(vcsItems, mainThread.arg)
    /\ vcsInfoLock' = [vcsInfoLock EXCEPT !.writer = FALSE]
    /\ mainThread' = ThreadIdle
    /\ UNCHANGED <<tracked, rev, pack, tree, crashed, hist, last, raceVars, vcsThread>>
    /\ UNCHANGED navVars

\* broadcastRemoveTrack(track): const ScopedWriteLock lock(vcsInfoLock).
RemoveTrackLock(track) ==
    /\ mainThread.pc = "idle"
    /\ CanEnterWrite
    /\ vcsInfoLock' = [vcsInfoLock EXCEPT !.writer = TRUE]
    /\ mainThread' = [mainThread EXCEPT !.pc = "removeTrack", !.arg = track]
    /\ UNCHANGED <<tracked, rev, pack, tree, crashed, hist, last, raceVars, vcsItems, vcsThread>>
    /\ UNCHANGED navVars

\* vcsItems.removeAllInstancesOf(tracked), and the lock goes out of scope.
RemoveTrackBody ==
    /\ mainThread.pc = "removeTrack"
    /\ vcsItems' = RemoveAllInstancesOf(vcsItems, mainThread.arg)
    /\ vcsInfoLock' = [vcsInfoLock EXCEPT !.writer = FALSE]
    /\ mainThread' = ThreadIdle
    /\ UNCHANGED <<tracked, rev, pack, tree, crashed, hist, last, raceVars, vcsThread>>
    /\ UNCHANGED navVars

\* ProjectTreeItem::reset(): vcsItems.clear() (line 527). No lock is taken.
ResetClear ==
    /\ mainThread.pc = "idle"
    /\ vcsItems' = <<>>
    /\ mainThread' = [mainThread EXCEPT !.pc = "resetCleared"]
    /\ UNCHANGED <<tracked, rev, pack, tree, crashed, hist, last, raceVars, vcsInfoLock, vcsThread>>
    /\ UNCHANGED navVars

\* reset(): vcsItems.add(this->info) (line 528).
ResetAddInfo ==
    /\ mainThread.pc = "resetCleared"
    /\ vcsItems' = Append(vcsItems, "info")
    /\ mainThread' = [mainThread EXCEPT !.pc = "resetInfoAdded"]
    /\ UNCHANGED <<tracked, rev, pack, tree, crashed, hist, last, raceVars, vcsInfoLock, vcsThread>>
    /\ UNCHANGED navVars

\* reset(): vcsItems.add(this->timeline) (line 529), and reset() goes on
\* with members this model does not hold.
ResetAddTimeline ==
    /\ mainThread.pc = "resetInfoAdded"
    /\ vcsItems' = Append(vcsItems, "timeline")
    /\ mainThread' = ThreadIdle
    /\ UNCHANGED <<tracked, rev, pack, tree, crashed, hist, last, raceVars, vcsInfoLock, vcsThread>>
    /\ UNCHANGED navVars

\* getNumTrackedItems(): const ScopedReadLock lock(vcsInfoLock).
GetNumTrackedItemsLock ==
    /\ vcsThread.pc = "idle"
    /\ CanEnterRead
    /\ vcsInfoLock' = [vcsInfoLock EXCEPT !.readers = @ + 1]
    /\ vcsThread' = [pc |-> "getNum", arg |-> "", result |-> "none"]
    /\ UNCHANGED <<tracked, rev, pack, tree, crashed, hist, last, raceVars, vcsItems, mainThread>>
    /\ UNCHANGED navVars

\* return this->vcsItems.size(), and the lock goes out of scope.
GetNumTrackedItemsBody ==
    /\ vcsThread.pc = "getNum"
    /\ vcsThread' = [pc |-> "idle", arg |-> "", result |-> Len(vcsItems)]
    /\ vcsInfoLock' = [vcsInfoLock EXCEPT !.readers = @ - 1]
    /\ UNCHANGED <<tracked, rev, pack, tree, crashed, hist, last, raceVars, vcsItems, mainThread>>
    /\ UNCHANGED navVars

\* getTrackedItem(index): const ScopedReadLock lock(vcsInfoLock).
GetTrackedItemLock(index) ==
    /\ vcsThread.pc = "idle"
    /\ CanEnterRead
    /\ vcsInfoLock' = [vcsInfoLock EXCEPT !.readers = @ + 1]
    /\ vcsThread' = [pc |-> "getItem", arg |-> index, result |-> "none"]
    /\ UNCHANGED <<tracked, rev, pack, tree, crashed, hist, last, raceVars, vcsItems, mainThread>>
    /\ UNCHANGED navVars

\* return this->vcsItems[index] (nullptr when the index is out of range),
\* and the lock goes out of scope.
GetTrackedItemBody ==
    /\ vcsThread.pc = "getItem"
    /\ vcsThread' = [pc |-> "idle", arg |-> "",
                     result |-> IF vcsThread.arg <= Len(vcsItems)
                                THEN vcsItems[vcsThread.arg] ELSE "nullptr"]
    /\ vcsInfoLock' = [vcsInfoLock EXCEPT !.readers = @ - 1]
    /\ UNCHANGED <<tracked, rev, pack, tree, crashed, hist, last, raceVars, vcsItems, mainThread>>
    /\ UNCHANGED navVars

\* The project is constructed; no RevisionItem takes part.
InitProjectOnly ==
    /\ tracked = [t \in TrackedIds |-> NoTrackedItem]
    /\ rev = [r \in Items |-> NoItem]
    /\ pack = EmptyPack
    /\ tree = NoTree
    /\ crashed = FALSE
    /\ hist = [r \in Items |-> NoHist]
    /\ last = Ran("init", 0)
    /\ NoRace
    /\ InitProject
    /\ InitNav

NextProject ==
    \/ \E track \in ProjectTracks : AddTrackLock(track)
    \/ AddTrackBody
    \/ \E track \in ProjectTracks : RemoveTrackLock(track)
    \/ RemoveTrackBody
    \/ ResetClear
    \/ ResetAddInfo
    \/ ResetAddTimeline
    \/ GetNumTrackedItemsLock
    \/ GetNumTrackedItemsBody
    \/ \E index \in 1 .. Len(InitialVcsItems) + Cardinality(ProjectTracks) :
           GetTrackedItemLock(index)
    \/ GetTrackedItemBody

SpecProject == InitProjectOnly /\ [][NextProject]_vars

----------------------------------------------------------------------------
\* TreeNavigationHistory (Source/Core/Tree/TreeNavigationHistory.cpp): the
\* back/forward history of the pages the user has opened. Its entries are
\* weak references, and the TreeItems they refer to can be deleted at any
\* time. Indices are 0-based as in the code; At(l, k) is l[k].

TreeItems == 1 .. MaxItems
LockIds == {1, 2}

\* WeakReference::wasObjectDeleted() and WeakReference::get(): a reference
\* that never referred to anything is null but not "deleted".
WasObjectDeleted(e) == e # NullItem /\ e \in deleted
Get(e) == IF e = NullItem \/ e \in deleted THEN NullItem ELSE e

\* Array::operator[]: a default (null) reference when k is out of range.
At(l, k) == IF k >= 0 /\ k < Len(l) THEN l[k + 1] ELSE NullItem

\* Array::removeRange(startIndex, numberToRemove): both ends are clamped to
\* [0, size].
Clamp(lo, hi, v) == IF v < lo THEN lo ELSE IF v > hi THEN hi ELSE v

RemoveRange(l, startIndex, numberToRemove) ==
    LET endIndex == Clamp(0, Len(l), startIndex + numberToRemove)
        start == Clamp(0, Len(l), startIndex)
    IN  IF endIndex > start
        THEN SubSeq(l, 1, start) \o SubSeq(l, endIndex + 1, Len(l))
        ELSE l

\* canGoForward(), canGoBackward(), getCurrentItem().
CanGoForward == currentPageIndex < Len(list) - 1
CanGoBackward == currentPageIndex > 0
GetCurrentItem == At(list, currentPageIndex)

\* goBack()'s while loop (lines 49-68).
RECURSIVE GoBackLoop(_, _)
GoBackLoop(l, idx) ==
    IF Len(l) > 0
    THEN LET currentItem == At(l, idx)
             previousItem == At(l, idx - 1)
             previousItemIsTheSameAsCurrent ==
                 /\ ~WasObjectDeleted(previousItem)
                 /\ ~WasObjectDeleted(currentItem)
                 /\ Get(currentItem) = Get(previousItem)
         IN  IF WasObjectDeleted(previousItem) \/ previousItemIsTheSameAsCurrent
             THEN GoBackLoop(RemoveRange(l, idx - 1, 1), idx - 1)
             ELSE [list |-> l, index |-> idx - 1]
    ELSE [list |-> l, index |-> idx]

\* goForward()'s while loop (lines 81-101).
RECURSIVE GoForwardLoop(_, _)
GoForwardLoop(l, idx) ==
    IF Len(l) - 1 > idx
    THEN LET currentItem == At(l, idx)
             nextItem == At(l, idx + 1)
             nextItemIsTheSameAsCurrent ==
                 /\ ~WasObjectDeleted(currentItem)
                 /\ ~WasObjectDeleted(nextItem)
                 /\ Get(currentItem) = Get(nextItem)
         IN  IF WasObjectDeleted(nextItem) \/ nextItemIsTheSameAsCurrent
             THEN GoForwardLoop(RemoveRange(l, idx + 1, 1), idx)
             ELSE [list |-> l, index |-> idx + 1]
    ELSE [list |-> l, index |-> idx]

\* addItemIfNeeded's cleanup loop (lines 125-140): it never looks at the
\* last entry.
RECURSIVE CleanupLoop(_, _, _)
CleanupLoop(l, idx, i) ==
    IF Len(l) - 1 > i
    THEN IF WasObjectDeleted(At(l, i))
         THEN CleanupLoop(RemoveRange(l, i, 1), IF idx >= i THEN idx - 1 ELSE idx, i)
         ELSE CleanupLoop(l, idx, i + 1)
    ELSE [list |-> l, index |-> idx]

\* An addItemIfNeeded that keeps the entries after the current one.
AddItemIfNeededKeepingForward(l, idx, hl, item) ==
    IF hl # NoLock
    THEN [list |-> l, index |-> idx, recorded |-> FALSE]
    ELSE IF item # NullItem /\ Get(At(l, idx)) # item
    THEN LET c == CleanupLoop(l, idx, 0)
         IN  [list |-> Append(c.list, item), index |-> Len(c.list), recorded |-> TRUE]
    ELSE [list |-> l, index |-> idx, recorded |-> FALSE]

\* addItemIfNeeded(item) on list l, index idx, with historyLock hl: the list
\* and index it leaves and what it returns.
AddItemIfNeededResult(l, idx, hl, item) ==
    IF hl # NoLock
    THEN [list |-> l, index |-> idx, recorded |-> FALSE]
    ELSE IF item # NullItem /\ Get(At(l, idx)) # item
    THEN LET c == CleanupLoop(l, idx, 0)
             kept == RemoveRange(c.list, c.index + 1, Len(c.list))
         IN  [list |-> Append(kept, item), index |-> Len(kept), recorded |-> TRUE]
    ELSE [list |-> l, index |-> idx, recorded |-> FALSE]

\* lock(): a new TreeNavigationHistoryLock, and historyLock refers to it.
LockHistory ==
    /\ \E k \in LockIds \ locks :
           /\ locks' = locks \cup {k}
           /\ historyLock' = k
    /\ navLast' = NavCall("lock", NullItem, FALSE)
    /\ UNCHANGED <<list, currentPageIndex, deleted>>
    /\ UNCHANGED <<tracked, rev, pack, tree, crashed, hist, last, raceVars, projectVars>>

\* The caller's ScopedPointer destroys lock k: a weak reference to it
\* becomes null.
DestroyLock(k) ==
    /\ k \in locks
    /\ locks' = locks \ {k}
    /\ historyLock' = IF historyLock = k THEN NoLock ELSE historyLock
    /\ navLast' = NavCall("destroyLock", NullItem, FALSE)
    /\ UNCHANGED <<list, currentPageIndex, deleted>>
    /\ UNCHANGED <<tracked, rev, pack, tree, crashed, hist, last, raceVars, projectVars>>

\* The user deletes TreeItem t: every weak reference to it reports
\* wasObjectDeleted().
DeleteTreeItem(t) ==
    /\ t \notin deleted
    /\ deleted' = deleted \cup {t}
    /\ navLast' = NavCall("delete", t, FALSE)
    /\ UNCHANGED <<list, currentPageIndex, historyLock, locks>>
    /\ UNCHANGED <<tracked, rev, pack, tree, crashed, hist, last, raceVars, projectVars>>

\* goBack().
GoBack ==
    /\ IF ~CanGoBackward
       THEN /\ navLast' = NavCall("goBack", NullItem, FALSE)
            /\ UNCHANGED <<list, currentPageIndex>>
       ELSE LET o == GoBackLoop(list, currentPageIndex)
            IN  /\ list' = o.list
                /\ currentPageIndex' = o.index
                /\ navLast' = NavCall("goBack", At(o.list, o.index), FALSE)
    /\ UNCHANGED <<historyLock, deleted, locks>>
    /\ UNCHANGED <<tracked, rev, pack, tree, crashed, hist, last, raceVars, projectVars>>

\* goForward().
GoForward ==
    /\ IF ~CanGoForward
       THEN /\ navLast' = NavCall("goForward", NullItem, FALSE)
            /\ UNCHANGED <<list, currentPageIndex>>
       ELSE LET o == GoForwardLoop(list, currentPageIndex)
            IN  /\ list' = o.list
                /\ currentPageIndex' = o.index
                /\ navLast' = NavCall("goForward", At(o.list, o.index), FALSE)
    /\ UNCHANGED <<historyLock, deleted, locks>>
    /\ UNCHANGED <<tracked, rev, pack, tree, crashed, hist, last, raceVars, projectVars>>

\* addItemIfNeeded(item), item a live TreeItem or nullptr.
AddItemIfNeeded(item) ==
    /\ Len(list) < MaxHistory
    /\ item \notin deleted
    /\ LET o == AddItemIfNeededResult(list, currentPageIndex, historyLock, item)
       IN  /\ list' = o.list
           /\ currentPageIndex' = o.index
           /\ navLast' = NavCall("addItemIfNeeded", item, o.recorded)
    /\ UNCHANGED <<historyLock, deleted, locks>>
    /\ UNCHANGED <<tracked, rev, pack, tree, crashed, hist, last, raceVars, projectVars>>

NextNav ==
    \/ LockHistory
    \/ \E k \in LockIds : DestroyLock(k)
    \/ \E t \in TreeItems : DeleteTreeItem(t)
    \/ GoBack
    \/ GoForward
    \/ \E item \in TreeItems \cup {NullItem} : AddItemIfNeeded(item)

\* A TreeNavigationHistory just constructed, and nothing else running.
InitHistory == InitProjectOnly

SpecNav == InitHistory /\ [][NextNav]_vars

----------------------------------------------------------------------------
\* Properties.

Alive == {r \in Items : rev[r].alive}

\* serializeDeltaData(i) of item r in the current state.
DeltaDataOf(r, i) == SerializeDeltaData(rev[r], pack, i)

\* What the Pack holds for (item r's uuid, the uuid of its i-th delta).
PackDataOf(r, i) == CreateDeltaDataFor(pack, rev[r].vcsUuid, rev[r].deltas[i].uuid)

\* Every valid index of item r is served from the Pack.
FallsThrough(r) ==
    \A i \in 1 .. GetNumDeltas(rev[r]) : DeltaDataOf(r, i) = PackDataOf(r, i)

\* C1: a RevisionItem constructed from a TrackedItem with N deltas has,
\* until some other operation runs on it, N deltas, and serializeDeltaData(i)
\* is the payload the source's serializeDeltaData(i) returned at construction.
C1_ConstructCapturesPayloads ==
    \A r \in Alive :
        (hist[r].state = "Uncommitted" /\ ~hist[r].touched /\ hist[r].src # NullTarget) =>
            /\ GetNumDeltas(rev[r]) = Len(tracked[hist[r].src].deltas)
            /\ Len(hist[r].captured) = GetNumDeltas(rev[r])
            /\ \A i \in 1 .. GetNumDeltas(rev[r]) : DeltaDataOf(r, i) = hist[r].captured[i]

\* A fresh snapshot of two deltas whose source has been edited since.
C1_Witness ==
    \E r \in Alive :
        /\ hist[r].state = "Uncommitted" /\ ~hist[r].touched /\ hist[r].src # NullTarget
        /\ GetNumDeltas(rev[r]) = 2
        /\ DeltaDataOf(r, 2) # LiveDeltaData(tracked[hist[r].src], 2)

\* C2: after a RevisionItem snapshotted from TrackedItem A is flushed, with
\* no importDataForDelta in between, the Pack returns for (A's uuid, d's
\* uuid) the payload captured for d at snapshot time, for every delta d.
C2_FlushStoresCapturedPayloads ==
    \A r \in Alive :
        (hist[r].state = "Flushed" /\ ~hist[r].touched /\ hist[r].src # NullTarget
         /\ last = Ran("flushData", r)) =>
            \A i \in 1 .. GetNumDeltas(rev[r]) :
                CreateDeltaDataFor(pack, hist[r].src, rev[r].deltas[i].uuid) = hist[r].captured[i]

\* A flushed snapshot of two deltas whose source has been edited since.
C2_Witness ==
    \E r \in Alive :
        /\ hist[r].state = "Flushed" /\ ~hist[r].touched /\ hist[r].src # NullTarget
        /\ last = Ran("flushData", r)
        /\ GetNumDeltas(rev[r]) = 2
        /\ PackDataOf(r, 1) # LiveDeltaData(tracked[hist[r].src], 1)

\* C3: when flushData() has returned, the pending cache is empty and
\* serializeDeltaData(i) is what the Pack holds for (item uuid, uuid of
\* delta i), for every valid i.
C3_AfterFlushServedFromPack ==
    \A r \in Alive :
        (last = Ran("flushData", r) /\ ~crashed) =>
            /\ rev[r].deltasData = <<>>
            /\ FallsThrough(r)

\* A flush has just returned on an item of two deltas, both now in the Pack.
C3_Witness ==
    \E r \in Alive :
        /\ last = Ran("flushData", r) /\ ~crashed
        /\ GetNumDeltas(rev[r]) = 2
        /\ \A i \in 1 .. 2 : DeltaDataOf(r, i) # EmptyPayload

\* C4: every entry i of the pending cache has a delta at index i and holds
\* a payload of that delta, never one of another delta or a placeholder.
C4_PendingEntriesBelongToTheirDeltas ==
    \A r \in Alive :
        \A i \in 1 .. Len(rev[r].deltasData) :
            /\ i <= Len(rev[r].deltas)
            /\ rev[r].deltasData[i][1] = "payload"
            /\ rev[r].deltasData[i][2] = rev[r].deltas[i].uuid

\* C5: a flushData() right after a flushData() changes nothing: the Pack,
\* the delta list and the (empty) pending cache stay as they are.
C5_SecondFlushIsNoOp ==
    \A r \in Alive :
        (last = Ran("flushData", r) /\ ~crashed) =>
            /\ FlushLoop(pack, rev[r], 1) = [pack |-> pack, crashed |-> FALSE]
            /\ FlushClear(rev[r]) = rev[r]
            /\ rev[r].deltasData = <<>>

\* A flush has just returned and left payloads in the Pack.
C5_Witness ==
    \E r \in Alive :
        /\ last = Ran("flushData", r) /\ ~crashed
        /\ hist[r].state = "Flushed"
        /\ GetNumDeltas(rev[r]) >= 1
        /\ PackDataOf(r, 1) # EmptyPayload

\* Item r is Flushed or Deserialized and holds no pending payload.
Committed(r) ==
    /\ rev[r].alive
    /\ hist[r].state \in {"Flushed", "Deserialized"}
    /\ rev[r].deltasData = <<>>

\* The step is an importDataForDelta on r with the uuid of one of its deltas.
MatchingImport(r) ==
    /\ last'.op = "importDataForDelta"
    /\ last'.r = r
    /\ FindDelta(rev[r], last'.deltaUuid) # 0

\* C6, as claimed: once an item is Flushed or Deserialized, with an empty
\* pending cache and every index served from the Pack, it stays so under
\* every operation.
C6_CommittedUnderEveryOperation ==
    [][\A r \in Items :
          (Committed(r) /\ FallsThrough(r)) => (Committed(r) /\ FallsThrough(r))']_vars

\* C6, amended: once an item is Flushed or Deserialized and its pending
\* cache is empty, the cache stays empty and every index is served from the
\* Pack under every operation other than an importDataForDelta with the
\* uuid of one of its deltas.
C6_CommittedUntilMatchingImport ==
    [][\A r \in Items :
          (Committed(r) /\ ~MatchingImport(r)) => (Committed(r) /\ FallsThrough(r))']_vars

\* An importDataForDelta with an unknown uuid has run on a flushed item of
\* two deltas, which are still served from the Pack.
C6_Witness ==
    \E r \in Alive :
        /\ Committed(r)
        /\ last.op = "importDataForDelta" /\ last.r = r
        /\ GetNumDeltas(rev[r]) = 2
        /\ \A i \in 1 .. 2 : DeltaDataOf(r, i) = PackDataOf(r, i) /\ PackDataOf(r, i) # EmptyPayload

\* The fields the serialized form carries.
SameSavedFields(a, b) ==
    /\ a.vcsItemType = b.vcsItemType
    /\ a.description = b.description
    /\ a.logic = b.logic
    /\ Ids(a.deltas) = Ids(b.deltas)

\* C7: for every RevisionItem with a DiffLogic of a registered type bound,
\* serialize() returns a tree, and deserializing it, into a new item or
\* into the item itself, gives the same type, name, diff logic tag and
\* sequence of delta uuids.
C7_SerializeDeserializeRoundTrip ==
    \A r \in Alive :
        rev[r].logic \in RegisteredLogicTypes =>
            LET o == SerializeOutcome(rev[r])
            IN  /\ ~o.crashed
                /\ \A base \in {NewItem(r, Undefined, NullTarget), rev[r]} :
                       SameSavedFields(DeserializeItem(base, o.tree), rev[r])

\* An item of two deltas that has just been loaded from its own saved form.
C7_Witness ==
    \E r \in Alive :
        /\ last.op = "deserialize" /\ last.r = r
        /\ rev[r].logic \in RegisteredLogicTypes
        /\ last.tree = SerializeItem(rev[r])
        /\ GetNumDeltas(rev[r]) = 2
        /\ rev[r].vcsItemType # Undefined

\* The delta uuids a revisionItem node lists, in the order of its children.
ChildUuids(node) ==
    [i \in 1 .. Len(node.children) |-> StringToUuid(node.children[i].props.deltaId)]

\* C8: the order of deltas is insertion order: the constructor copies the
\* source's uuid sequence, flushData and importDataForDelta leave the
\* sequence as it is, serialize() lists the deltas in that order and
\* deserialize() loads them in the order the tree lists them.
C8_DeltaOrderIsKept ==
    [][\A r \in Items :
          /\ (last'.op = "construct" /\ last'.r = r /\ hist'[r].src # NullTarget) =>
                 Ids(rev'[r].deltas) = Ids(tracked[hist'[r].src].deltas)
          /\ (last'.op \in {"flushData", "importDataForDelta"} /\ last'.r = r) =>
                 rev'[r].deltas = rev[r].deltas
          /\ (last'.op = "serialize" /\ last'.r = r /\ ~crashed') =>
                 ChildUuids(tree') = Ids(rev[r].deltas)
          /\ (last'.op = "deserialize" /\ last'.r = r /\ IsValid(RootOf(last'.tree))) =>
                 Ids(rev'[r].deltas) = ChildUuids(RootOf(last'.tree))]_vars

\* A snapshot of the two deltas of its source, uuids 2 then 1, that has been
\* saved and loaded again and lists them in that order.
C8_Witness ==
    \E r \in Alive :
        /\ last.op = "deserialize" /\ last.r = r
        /\ hist[r].src # NullTarget
        /\ last.tree.type = "revisionItem"
        /\ Ids(rev[r].deltas) = <<2, 1>>
        /\ Ids(rev[r].deltas) = Ids(tracked[hist[r].src].deltas)

\* C9: importDataForDelta with a uuid that matches no delta leaves the
\* item, its delta list and pending cache included, and the Pack unchanged.
C9_ImportUnknownIdChangesNothing ==
    [][\A r \in Items :
          (last'.op = "importDataForDelta" /\ last'.r = r
           /\ FindDelta(rev[r], last'.deltaUuid) = 0) =>
              /\ rev'[r] = rev[r]
              /\ pack' = pack]_vars

\* An import with an unknown uuid has run on an item that has a delta and a
\* pending payload.
C9_Witness ==
    \E r \in Alive :
        /\ last.op = "importDataForDelta" /\ last.r = r
        /\ FindDelta(rev[r], last.deltaUuid) = 0
        /\ GetNumDeltas(rev[r]) >= 1
        /\ Len(rev[r].deltasData) >= 1

\* C10: importDataForDelta with the uuid of the delta at index k makes the
\* pending cache as long as k if it was shorter, the new entries below k
\* placeholders, sets entry k to the payload, and leaves the delta list and
\* every entry that was there at another index unchanged.
C10_ImportSetsSlotOfDelta ==
    [][\A r \in Items :
          LET k == FindDelta(rev[r], last'.deltaUuid)
              old == rev[r].deltasData
              new == rev'[r].deltasData
          IN  (last'.op = "importDataForDelta" /\ last'.r = r /\ k # 0) =>
                  /\ Len(new) = (IF Len(old) >= k THEN Len(old) ELSE k)
                  /\ new[k] = last'.payload
                  /\ \A i \in 1 .. Len(old) : i # k => new[i] = old[i]
                  /\ \A i \in (Len(old) + 1) .. (k - 1) : new[i] = Dummy
                  /\ rev'[r].deltas = rev[r].deltas
                  /\ pack' = pack]_vars

\* An import for the second delta has run on an item with an empty cache:
\* a placeholder, then the payload.
C10_Witness ==
    \E r \in Alive :
        /\ last.op = "importDataForDelta" /\ last.r = r
        /\ FindDelta(rev[r], last.deltaUuid) = 2
        /\ rev[r].deltasData = <<Dummy, last.payload>>

\* The operation that ran last was a deserialize on r of a tree that is or
\* holds a revisionItem node: the load went through to its end.
Loaded(r) ==
    /\ last.op = "deserialize" /\ last.r = r
    /\ IsValid(RootOf(last.tree))

\* The revisionItemType the loaded tree carries (Undefined when it has none).
SavedType(t) == GetProperty(RootOf(t), "revisionItemType", Undefined)

\* C11: after deserializing a tree whose revisionItemType is outside the
\* enumeration the item's type is Undefined and the process has not
\* crashed; a value inside the enumeration is the item's type exactly.
C11_UnknownTypeLoadsAsUndefined ==
    \A r \in Alive :
        Loaded(r) =>
            /\ ~crashed
            /\ rev[r].vcsItemType =
                   IF SavedType(last.tree) \in Types THEN SavedType(last.tree) ELSE Undefined

\* C12: the type of every RevisionItem is one of the four enumerators, and
\* it is not Undefined when a deserialize has just populated the item.
C12_TypeIsEnumerated ==
    \A r \in Alive :
        /\ rev[r].vcsItemType \in Types
        /\ Loaded(r) => rev[r].vcsItemType # Undefined

\* The Pack entries pk holds under item uuids other than u.
EntriesOfOthers(pk, u) == {<<k, pk[k]>> : k \in {j \in DOMAIN pk : j[1] # u}}

\* C13: a flushData on item r leaves every Pack entry stored under another
\* item uuid as it was, and adds none there, also when both items have a
\* delta with the same uuid.
C13_FlushKeepsPayloadsOfOtherItems ==
    [][\A r \in Items :
          (last'.op = "flushData" /\ last'.r = r) =>
              EntriesOfOthers(pack', rev[r].vcsUuid) = EntriesOfOthers(pack, rev[r].vcsUuid)]_vars

\* Item 1 has just been flushed while the Pack holds, for one delta uuid, a
\* payload under item 1's uuid and another under item 2's uuid.
C13_Witness ==
    /\ last = Ran("flushData", 1) /\ ~crashed
    /\ rev[1].alive /\ rev[2].alive
    /\ rev[1].vcsUuid # rev[2].vcsUuid
    /\ hist[2].state = "Flushed"
    /\ \E d \in DeltaIds :
           /\ CreateDeltaDataFor(pack, rev[1].vcsUuid, d) = Payload(d, "a")
           /\ CreateDeltaDataFor(pack, rev[2].vcsUuid, d) = Payload(d, "b")

\* C14: when deserialize(tree) has completed, the pending cache is empty and
\* every index is served from the Pack; when the tree held a revisionItem
\* node, the delta list, the name and the type are the ones it lists.
C14_DeserializeLeavesNoStaleState ==
    \A r \in Alive :
        (last.op = "deserialize" /\ last.r = r) =>
            /\ rev[r].deltasData = <<>>
            /\ FallsThrough(r)
            /\ IF Loaded(r)
               THEN /\ rev[r].deltas = DeserializeDeltas(RootOf(last.tree))
                    /\ rev[r].description = GetProperty(RootOf(last.tree), "revisionItemName", "")
                    /\ rev[r].vcsItemType = SavedType(last.tree)
               ELSE /\ rev[r].deltas = <<>>
                    /\ rev[r].description = ""
                    /\ rev[r].vcsItemType = Undefined

\* Index i of item r is valid, not in the pending cache, and nothing was
\* ever written to the Pack under its key (the Pack never removes a key).
Unmaterialized(r, i) ==
    /\ i \in 1 .. GetNumDeltas(rev[r])
    /\ i > Len(rev[r].deltasData)
    /\ <<rev[r].vcsUuid, rev[r].deltas[i].uuid>> \notin DOMAIN pack

\* C15: serializeDeltaData(i), for a valid index that is not in the pending
\* cache and whose key was never written to the Pack, is the empty payload.
C15_PackMissGivesEmptyPayload ==
    \A r \in Alive :
        \A i \in 1 .. GetNumDeltas(rev[r]) :
            Unmaterialized(r, i) => DeltaDataOf(r, i) = EmptyPayload

\* A loaded item with a pending payload for its first delta and nothing,
\* in the cache or in the Pack, for its second.
C15_Witness ==
    \E r \in Alive :
        /\ ~crashed
        /\ Len(rev[r].deltasData) = 1
        /\ Unmaterialized(r, 2)
        /\ DeltaDataOf(r, 1) = RemotePayload(rev[r].deltas[1].uuid)
        /\ DeltaDataOf(r, 2) = EmptyPayload

\* The diff logic tag the loaded tree carries ("" when it has none).
SavedLogic(t) == GetProperty(RootOf(t), "revisionItemDiffLogic", "")

\* C16: a deserialize of a tree whose diff logic tag nothing registered does
\* not end with an item that has the tree's name, type and deltas and no
\* DiffLogic.
C16_UnknownLogicIsNotLoaded ==
    \A r \in Alive :
        (Loaded(r) /\ SavedLogic(last.tree) \notin RegisteredLogicTypes) =>
            ~ /\ rev[r].logic = NullLogic
              /\ rev[r].description = GetProperty(RootOf(last.tree), "revisionItemName", "")
              /\ rev[r].vcsItemType = SavedType(last.tree)
              /\ rev[r].deltas = DeserializeDeltas(RootOf(last.tree))

\* C17: every constructed RevisionItem has a DiffLogic bound, and serialize()
\* never runs into an item without one.
C17_DiffLogicIsAlwaysBound ==
    /\ \A r \in Alive : rev[r].logic # NullLogic
    /\ last.op = "serialize" => ~crashed

\* C18: a deserialize, reset or importDataForDelta on one RevisionItem
\* leaves the Pack and every other RevisionItem as they were, and the Pack
\* changes in no step other than a flushData.
C18_OnlyFlushWritesThePack ==
    [][/\ last'.op \in {"deserialize", "reset", "importDataForDelta"} =>
              /\ pack' = pack
              /\ \A q \in Items \ {last'.r} : rev'[q] = rev[q]
       /\ pack' # pack => last'.op = "flushData"]_vars

\* A load of a tree without a revisionItem node has just failed on item 1
\* while item 2 holds pending payloads and the Pack holds flushed ones.
C18_Witness ==
    /\ last.op = "deserialize" /\ last.r = 1
    /\ ~IsValid(RootOf(last.tree))
    /\ rev[1].alive /\ rev[2].alive
    /\ Len(rev[2].deltasData) >= 2
    /\ pack # EmptyPack

\* C19: whenever serializeDeltaData(i) returns while flushData() runs on
\* another thread, it returns the payload captured for delta i, and the
\* process has not faulted.
C19_ReaderGetsPayloadDuringFlush ==
    /\ ~crashed
    /\ reader.pc = "done" => reader.result = hist[1].captured[reader.i]

\* C20: every step that changes the tracked-items list is taken by a thread
\* that holds the write side of vcsInfoLock, while no reader is inside.
C20_ListChangesUnderWriteLock ==
    [][vcsItems' # vcsItems => (vcsInfoLock.writer /\ vcsInfoLock.readers = 0)]_vars

\* C21: serializeDeltaData(i) is the pending entry i when i is within the
\* pending cache and what the Pack returns for (item uuid, uuid of delta i)
\* otherwise, for every valid index of every item.
C21_CacheThenPack ==
    \A r \in Alive :
        \A i \in 1 .. GetNumDeltas(rev[r]) :
            DeltaDataOf(r, i) =
                IF i <= Len(rev[r].deltasData) THEN rev[r].deltasData[i] ELSE PackDataOf(r, i)

\* An item of two deltas with one pending entry: index 1 is served from the
\* cache, though the Pack holds another payload for it, and index 2 from
\* the Pack.
C21_Witness ==
    \E r \in Alive :
        /\ GetNumDeltas(rev[r]) = 2
        /\ Len(rev[r].deltasData) = 1
        /\ PackDataOf(r, 1) # EmptyPayload
        /\ DeltaDataOf(r, 1) # PackDataOf(r, 1)
        /\ DeltaDataOf(r, 2) # EmptyPayload

\* The payload captured for delta i of item r is in r's pending cache or in
\* the Pack.
Available(r, i) ==
    \/ i <= Len(rev[r].deltasData) /\ rev[r].deltasData[i] = hist[r].captured[i]
    \/ PackDataOf(r, i) = hist[r].captured[i]

\* C22: in every state of a flushData execution, from its first statement
\* to its return, every payload that was pending when the call began is in
\* the pending cache or in the Pack.
C22_FlushWritesBeforeItClears ==
    \A i \in 1 .. Len(hist[1].captured) : Available(1, i)

\* The worker has written both payloads and is about to clear the cache.
C22_Witness ==
    /\ worker.pc = "clear"
    /\ Len(rev[1].deltasData) = 2
    /\ \A i \in 1 .. 2 : PackDataOf(1, i) = hist[1].captured[i]

\* C23: a deserialize of a tree that neither is nor holds a revisionItem
\* node leaves the item with no deltas, an empty name and type Undefined,
\* and leaves the Pack as it was.
C23_LoadWithoutRootResets ==
    [][\A r \in Items :
          (last'.op = "deserialize" /\ last'.r = r /\ ~IsValid(RootOf(last'.tree))) =>
              /\ rev'[r].deltas = <<>>
              /\ rev'[r].description = ""
              /\ rev'[r].vcsItemType = Undefined
              /\ pack' = pack]_vars

\* Such a load has just run on an item that was a snapshot while the Pack
\* holds payloads.
C23_Witness ==
    \E r \in Alive :
        /\ last.op = "deserialize" /\ last.r = r
        /\ ~IsValid(RootOf(last.tree))
        /\ hist[r].src # NullTarget
        /\ rev[r].deltas = <<>>
        /\ pack # EmptyPack

\* C24: after any sequence of construct, flushData and importDataForDelta,
\* every value the Pack holds under a key is a payload of the delta of that
\* key, never a placeholder.
C24_NoPlaceholderInPack ==
    \A k \in DOMAIN pack :
        /\ pack[k] # Dummy
        /\ pack[k][1] = "payload"
        /\ pack[k][2] = k[2]

\* C26: once an item is flushed, no step of another RevisionItem on the
\* same Pack changes what its serializeDeltaData(i) returns, for any valid i.
C26_FlushedPayloadsAreStable ==
    [][\A r \in Items :
          (rev[r].alive /\ hist[r].state = "Flushed" /\ rev[r].deltasData = <<>>
           /\ last'.r # r) =>
              \A i \in 1 .. GetNumDeltas(rev[r]) : DeltaDataOf(r, i)' = DeltaDataOf(r, i)]_vars

\* C25: the pending cache of every item is no longer than its delta list,
\* and flushData never dereferences a delta that does not exist.
C25_CacheNoLongerThanDeltas ==
    /\ \A r \in Alive : Len(rev[r].deltasData) <= Len(rev[r].deltas)
    /\ last.op = "flushData" => ~crashed

\* C27: whenever the history list is not empty, currentPageIndex is the
\* index of one of its entries.
C27_IndexWithinList ==
    list # <<>> => (0 <= currentPageIndex /\ currentPageIndex < Len(list))

\* C28: a goBack() called when canGoBackward() holds, and a goForward()
\* called when canGoForward() holds, returns a TreeItem that is not deleted
\* and is not the item that was current before the call.
C28_NavigationReachesAnotherLiveItem ==
    [][/\ (navLast'.op = "goBack" /\ CanGoBackward) =>
              /\ Get(navLast'.item) # NullItem
              /\ Get(navLast'.item) # Get(GetCurrentItem)
       /\ (navLast'.op = "goForward" /\ CanGoForward) =>
              /\ Get(navLast'.item) # NullItem
              /\ Get(navLast'.item) # Get(GetCurrentItem)]_vars

\* The call would record the item if no lock were in the way: the item is
\* not null and is not the current one.
WouldRecord(item) == item # NullItem /\ Get(GetCurrentItem) # item

\* C29: while a lock obtained from lock() is alive, addItemIfNeeded returns
\* false and leaves the list and the index as they are; with no lock alive
\* it records an item that is not null and not the current one.
C29_NothingRecordedWhileLockIsAlive ==
    [][navLast'.op = "addItemIfNeeded" =>
          IF locks # {}
          THEN ~navLast'.recorded /\ list' = list /\ currentPageIndex' = currentPageIndex
          ELSE navLast'.recorded = WouldRecord(navLast'.item)]_vars

\* The entries of l that refer to TreeItems not deleted, in order.
LiveEntries(l) == SelectSeq(l, LAMBDA e : ~WasObjectDeleted(e))

\* The entries of l at indices 0 .. k.
UpTo(l, k) == SubSeq(l, 1, Clamp(0, Len(l), k + 1))

\* a can be obtained from b by removing entries.
RECURSIVE IsSubsequence(_, _)
IsSubsequence(a, b) ==
    IF a = <<>> THEN TRUE
    ELSE IF b = <<>> THEN FALSE
    ELSE IF Head(a) = Head(b) THEN IsSubsequence(Tail(a), Tail(b))
    ELSE IsSubsequence(a, Tail(b))

\* C30: when addItemIfNeeded(item) returns true, no lock is held, item is
\* not null and not the current item; item is the last entry of the list and
\* the current item, canGoForward() is false, and before item the list
\* holds only entries that were at or before the previous current position,
\* among them every live one, in their order.
C30_AddAppendsAndDropsForward ==
    [][(navLast'.op = "addItemIfNeeded" /\ navLast'.recorded) =>
          /\ historyLock = NoLock
          /\ WouldRecord(navLast'.item)
          /\ list' # <<>>
          /\ list'[Len(list')] = navLast'.item
          /\ GetCurrentItem' = navLast'.item
          /\ currentPageIndex' = Len(list') - 1
          /\ ~CanGoForward'
          /\ IsSubsequence(UpTo(list', Len(list') - 2), UpTo(list, currentPageIndex))
          /\ LiveEntries(UpTo(list', Len(list') - 2)) =
                 LiveEntries(UpTo(list, currentPageIndex))]_vars

\* An item has just been recorded after a live page, while another TreeItem
\* is deleted.
C30_Witness ==
    /\ navLast.op = "addItemIfNeeded" /\ navLast.recorded
    /\ Len(list) = 2
    /\ list[1] \notin deleted
    /\ deleted # {}
    /\ locks = {}

====
